---- MODULE Spec2Model ----
(***************************************************************************)
(* Model of cloudinstall/gui.py: the deployment orchestrator               *)
(* (ControllerOverlay.process / _process), the asynchronous bridge         *)
(* (PegasusGUI.run_async), the tick scheduler (NodeViewMode.tick) and the  *)
(* idle lock (PegasusGUI.tick, LockScreen).                                *)
(***************************************************************************)
EXTENDS Integers, Sequences, FiniteSets, TLC

(* ------------------------------ bounds -------------------------------- *)

\* How many bridged calls may be in flight at once.
MaxCalls == 2

(* ------------------------- domains of the inputs ---------------------- *)

\* The charm classes the registry may hold (cloudinstall.charms modules).
Charms == {"c1", "c2"}

\* deploy_priority attribute of each charm class: c2 deploys before c1.
deploy_priority(c) == IF c = "c1" THEN 2 ELSE 1

MachineIds == {"m1", "m2"}

AgentStates == {"pending", "started", "error"}

None == "None"

\* self.machine = None, as a machine record.
NoMachine == [machine_id |-> None, agent_state |-> None]

Hooks == {"setup", "set_relations", "post_proc"}

\* Which hook invocation raises in a call, if it is reached (the first
\* exception aborts the call, so one is enough).
NoRaise == <<"-", "-">>

Raisers(registered) == {NoRaise} \cup (Hooks \X registered)

Range(s) == {s[i] : i \in DOMAIN s}

\* Sequences without repetition over a set, up to length n.
RECURSIVE DistinctSeqs(_, _)
DistinctSeqs(S, n) ==
    IF n = 0 \/ S = {} THEN {<<>>}
    ELSE {<<>>} \cup UNION {{<<x>> \o t : t \in DistinctSeqs(S \ {x}, n - 1)} : x \in S}

\* juju_state.machines_allocated(): machines in juju's order.
AllocatedLists ==
    UNION {{[i \in DOMAIN ids |-> [machine_id |-> ids[i], agent_state |-> st[i]]] :
              st \in [DOMAIN ids -> AgentStates]} :
           ids \in DistinctSeqs(MachineIds, Cardinality(MachineIds))}

\* A polled maas state: only the number of allocated machines is read.
MaasStates == [allocated : {0, 1}]

\* The maas state of a single-system install, which has no MAAS.
NoMaas == [allocated |-> 0]

\* What a snapshot offers the controller acquisition: how many machines juju
\* has allocated, the id of the first of them (in juju's order) whose agent
\* is started, and how many machines maas has allocated.
Unseen == [allocated |-> -1, first_started |-> None, maas |-> -1]

Seen(allocated, maas_state) ==
    LET started == {i \in DOMAIN allocated : allocated[i].agent_state = "started"}
    IN  [allocated |-> Len(allocated),
         first_started |-> IF started = {} THEN None
                           ELSE allocated[CHOOSE i \in started :
                                              \A j \in started : i <= j].machine_id,
         maas |-> maas_state.allocated]

VARIABLES
    registry,                 \* charm classes in module iteration order
    SINGLE_SYSTEM,            \* pegasus.SINGLE_SYSTEM
    MULTI_SYSTEM,             \* pegasus.MULTI_SYSTEM
    done,                     \* ControllerOverlay.done
    machine,                  \* ControllerOverlay.machine (None or a record)
    deployed_charm_classes,   \* list
    finalized_charm_classes,  \* list
    single_net_configured,    \* latch of configure_lxc_network
    info_text,                \* status message
    last_result,              \* the last process call: "none", "True", "False", "raised"
    call_log,                 \* side effects of the last process call, in order
    last_services,            \* the service names given to the last process call
    ran_process,              \* whether the last process call entered _process
    invoked,                  \* <<hook, charm>> invoked in some call so far
    last_seen,                \* what the last process call's snapshot offered
    calls,                    \* the bridged calls, one record per slot
    loop_error,               \* whether an exception escaped to the event loop
    IS_TTY,                   \* whether the installer runs on a console tty
    widget,                   \* MainLoop.widget: the view on screen
    target,                   \* NodeViewMode._target
    locked,                   \* PegasusGUI.locked
    lock_ticks,               \* PegasusGUI.lock_ticks
    old,                      \* old['res'] captured by the lock in force
    bypassed,                 \* whether the last unlock put the node view in the overlay's place
    ticks_left,               \* NodeViewMode.ticks_left
    tick_mod,                 \* number of tick() calls so far, modulo poll_interval
    refreshed,                \* whether F5 was pressed so far
    f5_pending,               \* whether F5 was pressed since the last tick()
    client_on_loop,           \* JujuClient operations run on the loop thread so far
    exited,                   \* whether ExitMainLoop was raised: the loop has ended
    idle_updates              \* whether do_update ran with the overlay no longer its target

orchVars == <<registry, SINGLE_SYSTEM, MULTI_SYSTEM, done, machine,
              deployed_charm_classes, finalized_charm_classes,
              single_net_configured, info_text, last_result, call_log,
              last_services, ran_process, invoked, last_seen>>

bridgeVars == <<calls, loop_error>>

viewVars == <<widget, target>>

lockVars == <<IS_TTY, locked, lock_ticks, old, bypassed>>

tickVars == <<ticks_left, tick_mod, refreshed, f5_pending>>

guiVars == <<viewVars, lockVars, tickVars, client_on_loop, exited, idle_updates>>

vars == <<orchVars, bridgeVars, guiVars>>

(* ------------------------- ControllerOverlay -------------------------- *)

PXE_BOOT == "PXE_BOOT"

NODE_WAIT == "NODE_WAIT"

\* One entry of the log of side effects.
Ev(h, c, r, m) == [hook |-> h, charm |-> c, raised |-> r, mid |-> m]

\* sorted(..., key=attrgetter('deploy_priority')): stable insertion.
RECURSIVE Insert(_, _)
Insert(c, s) ==
    IF s = <<>> THEN <<c>>
    ELSE IF deploy_priority(c) < deploy_priority(Head(s)) THEN <<c>> \o s
    ELSE <<Head(s)>> \o Insert(c, Tail(s))

RECURSIVE sorted(_)
sorted(s) ==
    IF s = <<>> THEN <<>>
    ELSE Insert(s[Len(s)], sorted(SubSeq(s, 1, Len(s) - 1)))

charm_classes == sorted(registry)

\* [c for c in seq if c not in lst]
NotIn(seq, lst) == SelectSeq(seq, LAMBDA c : c \notin Range(lst))

\* juju_state.service(name) is not None / name in service_names; a charm's
\* name() and charm_name are taken to be the one name of its service.
HasService(services, name) == name \in services

\* get_started_machine taking the first allocated machine, whatever its
\* agent state.
get_started_machine_any(allocated) ==
    IF Len(allocated) = 0
    THEN [machine |-> NoMachine, text |-> "Waiting for a machine to become ready.",
          log |-> <<>>]
    ELSE [machine |-> allocated[1], text |-> info_text, log |-> <<>>]

\* get_started_machine: the first allocated machine whose agent is started.
get_started_machine(allocated) ==
    LET started_machines == SelectSeq(allocated, LAMBDA m : m.agent_state = "started")
    IN  IF Len(started_machines) = 0
        THEN [machine |-> NoMachine, text |-> "Waiting for a machine to become ready.",
              log |-> <<>>]
        ELSE [machine |-> started_machines[1], text |-> info_text, log |-> <<>>]

\* get_controller_machine without the add_machine call.
get_controller_machine_no_add(juju_state, maas_state) ==
    LET allocated == juju_state.allocated
    IN  IF MULTI_SYSTEM
        THEN IF Len(allocated) = 0 /\ maas_state.allocated = 0
             THEN [machine |-> NoMachine,
                   text |-> "No machines allocated to juju. Please pxe boot a machine.",
                   log |-> <<>>]
             ELSE IF Len(allocated) = 0 /\ maas_state.allocated > 0
             THEN [machine |-> NoMachine, text |-> "Adding maas machine to juju",
                   log |-> <<>>]
             ELSE get_started_machine(allocated)
        ELSE IF SINGLE_SYSTEM
        THEN get_started_machine(allocated)
        ELSE [machine |-> NoMachine, text |-> info_text, log |-> <<>>]

\* get_controller_machine: the machine chosen, the status text and the
\* add_machine call it makes.
get_controller_machine(juju_state, maas_state) ==
    LET allocated == juju_state.allocated
    IN  IF MULTI_SYSTEM
        THEN IF Len(allocated) = 0 /\ maas_state.allocated = 0
             THEN [machine |-> NoMachine,
                   text |-> "No machines allocated to juju. Please pxe boot a machine.",
                   log |-> <<>>]
             ELSE IF Len(allocated) = 0 /\ maas_state.allocated > 0
             THEN [machine |-> NoMachine, text |-> "Adding maas machine to juju",
                   log |-> <<Ev("add_machine", "-", FALSE, "-")>>]
             ELSE get_started_machine(allocated)
        ELSE IF SINGLE_SYSTEM
        THEN get_started_machine(allocated)
        ELSE [machine |-> NoMachine, text |-> info_text, log |-> <<>>]

\* acquire without the test of line 124: every call looks for the
\* controller machine anew.
acquire_anew(juju_state, maas_state) ==
    get_controller_machine(juju_state, maas_state)

\* Lines 124-125 of _process: the controller machine is looked for only
\* while none is chosen.
acquire(juju_state, maas_state) ==
    IF machine = NoMachine
    THEN get_controller_machine(juju_state, maas_state)
    ELSE [machine |-> machine, text |-> info_text, log |-> <<>>]

\* The deployment loop over undeployed_charm_classes (lines 142-159): a charm
\* whose service exists is appended without setup; otherwise setup runs and
\* the charm is appended only when setup returned.
RECURSIVE DeployLoop(_, _, _, _, _, _)
DeployLoop(todo, services, mid, raiser, dep, log) ==
    IF todo = <<>> THEN [deployed |-> dep, log |-> log, raised |-> FALSE]
    ELSE LET c == Head(todo)
         IN  IF HasService(services, c)
             THEN DeployLoop(Tail(todo), services, mid, raiser, Append(dep, c), log)
             ELSE IF raiser = <<"setup", c>>
             THEN [deployed |-> dep, log |-> Append(log, Ev("setup", c, TRUE, mid)),
                   raised |-> TRUE]
             ELSE DeployLoop(Tail(todo), services, mid, raiser, Append(dep, c),
                             Append(log, Ev("setup", c, FALSE, mid)))

\* FinalizeLoop without the check that the charm's service is up.
RECURSIVE FinalizeLoop_unchecked(_, _, _, _, _)
FinalizeLoop_unchecked(todo, services, raiser, fin, log) ==
    IF todo = <<>> THEN [finalized |-> fin, log |-> log, raised |-> FALSE]
    ELSE LET c == Head(todo)
         IN  IF raiser = <<"set_relations", c>>
             THEN [finalized |-> fin,
                   log |-> Append(log, Ev("set_relations", c, TRUE, "-")),
                   raised |-> TRUE]
             ELSE IF raiser = <<"post_proc", c>>
             THEN [finalized |-> fin,
                   log |-> log \o <<Ev("set_relations", c, FALSE, "-"),
                                    Ev("post_proc", c, TRUE, "-")>>,
                   raised |-> TRUE]
             ELSE FinalizeLoop_unchecked(Tail(todo), services, raiser, Append(fin, c),
                                         log \o <<Ev("set_relations", c, FALSE, "-"),
                                                  Ev("post_proc", c, FALSE, "-")>>)

\* The finalization loop over unfinalized_charm_classes (lines 167-182): a
\* charm without a service is deferred; otherwise set_relations, post_proc,
\* and the charm is appended when both returned.
RECURSIVE FinalizeLoop(_, _, _, _, _)
FinalizeLoop(todo, services, raiser, fin, log) ==
    IF todo = <<>> THEN [finalized |-> fin, log |-> log, raised |-> FALSE]
    ELSE LET c == Head(todo)
         IN  IF ~HasService(services, c)
             THEN FinalizeLoop(Tail(todo), services, raiser, fin, log)
             ELSE IF raiser = <<"set_relations", c>>
             THEN [finalized |-> fin,
                   log |-> Append(log, Ev("set_relations", c, TRUE, "-")),
                   raised |-> TRUE]
             ELSE IF raiser = <<"post_proc", c>>
             THEN [finalized |-> fin,
                   log |-> log \o <<Ev("set_relations", c, FALSE, "-"),
                                    Ev("post_proc", c, TRUE, "-")>>,
                   raised |-> TRUE]
             ELSE FinalizeLoop(Tail(todo), services, raiser, Append(fin, c),
                               log \o <<Ev("set_relations", c, FALSE, "-"),
                                        Ev("post_proc", c, FALSE, "-")>>)

\* undeployed_charm_classes without the filter on what is deployed.
undeployed_charm_classes_unfiltered(deployed) == charm_classes

\* [c for c in charm_classes if c not in self.deployed_charm_classes]
undeployed_charm_classes(deployed) == NotIn(charm_classes, deployed)

\* [c for c in self.deployed_charm_classes if c not in self.finalized_charm_classes]
unfinalized_charm_classes(deployed, finalized) == NotIn(deployed, finalized)

\* completion_test comparing the deployed list instead of the finalized one.
completion_test_on_deployed(deployed, finalized) ==
    IF Len(deployed) = Len(charm_classes) THEN "False" ELSE "True"

\* The completion test of _process (lines 189-194): what it returns.
completion_test(deployed, finalized) ==
    IF Len(finalized) = Len(charm_classes) THEN "False" ELSE "True"

\* The test of lines 131-132 without the enclosing test of line 124 and
\* without the latch: every call of a single-system install configures.
runs_configure_lxc_network_always == SINGLE_SYSTEM

\* Lines 124-132: configure_lxc_network is called by the call that chooses
\* the machine (self.machine was None), in a single-system install whose
\* network is not configured yet.
runs_configure_lxc_network ==
    machine = NoMachine /\ SINGLE_SYSTEM /\ ~single_net_configured

\* _process after the controller acquisition `got` (lines 127-194): the
\* fields after the call, its side effects and what it returns ("True",
\* "False", or "raised" when a hook's exception left it).
process_body(got, services, raiser) ==
    LET base == [machine |-> got.machine,
                 deployed |-> deployed_charm_classes,
                 finalized |-> finalized_charm_classes,
                 net |-> single_net_configured,
                 text |-> got.text,
                 log |-> got.log,
                 ret |-> "True"]
    IN  IF got.machine = NoMachine THEN base
        ELSE
        LET configure == runs_configure_lxc_network
            log0 == IF configure
                    THEN got.log \o <<Ev("configure_lxc_network", "-", FALSE,
                                         got.machine.machine_id)>>
                    ELSE got.log
            net0 == single_net_configured \/ configure
            undeployed == undeployed_charm_classes(deployed_charm_classes)
            text1 == IF Len(undeployed) > 0 THEN "Deploying charms" ELSE got.text
            d == DeployLoop(undeployed, services, got.machine.machine_id, raiser,
                            deployed_charm_classes, log0)
            afterDeploy == [base EXCEPT !.deployed = d.deployed, !.net = net0,
                                        !.text = text1, !.log = d.log]
        IN  IF d.raised THEN [afterDeploy EXCEPT !.ret = "raised"]
            ELSE
            LET unfinalized == unfinalized_charm_classes(d.deployed,
                                                         finalized_charm_classes)
                text2 == IF Len(unfinalized) > 0 THEN "Setting charm relations"
                         ELSE text1
                f == FinalizeLoop(unfinalized, services, raiser,
                                  finalized_charm_classes, d.log)
                afterFinal == [afterDeploy EXCEPT !.finalized = f.finalized,
                                                  !.text = text2, !.log = f.log]
            IN  IF f.raised THEN [afterFinal EXCEPT !.ret = "raised"]
                ELSE [afterFinal EXCEPT
                        !.ret = completion_test(d.deployed, f.finalized)]

\* The hook invocations of one call.
InvokedIn(log) ==
    {<<log[i].hook, log[i].charm>> : i \in {j \in DOMAIN log : log[j].hook \in Hooks}}

\* Whether the last call made the side effect op.
LoggedOp(op) == \E i \in DOMAIN call_log : call_log[i].hook = op

\* The call of _process from process (lines 108-112): the fields take the
\* values _process left, done is set when it returned False.
run_process(got, services, raiser) ==
    \E r \in {process_body(got, services, raiser)} :
        /\ machine' = r.machine
        /\ deployed_charm_classes' = r.deployed
        /\ finalized_charm_classes' = r.finalized
        /\ single_net_configured' = r.net
        /\ info_text' = r.text
        /\ done' = (r.ret = "False")
        /\ last_result' = r.ret
        /\ call_log' = r.log
        /\ ran_process' = TRUE
        /\ last_services' = services
        /\ invoked' = invoked \cup InvokedIn(r.log)
        /\ UNCHANGED <<registry, SINGLE_SYSTEM, MULTI_SYSTEM>>

\* process without the latch on done.
process_unlatched(got, services, raiser) == run_process(got, services, raiser)

\* process: the latch on done, then _process. `got` is what the controller
\* acquisition makes of the call's snapshot, `services` the snapshot's
\* service names.
process(got, services, raiser) ==
    IF done
    THEN /\ last_result' = "False"
         /\ call_log' = <<>>
         /\ ran_process' = FALSE
         /\ last_services' = services
         /\ UNCHANGED <<registry, SINGLE_SYSTEM, MULTI_SYSTEM, done, machine,
                        deployed_charm_classes, finalized_charm_classes,
                        single_net_configured, info_text, invoked>>
    ELSE run_process(got, services, raiser)

(* ----------------------- PegasusGUI.run_async -------------------------- *)

\* What refresh_states may return to the worker.
PollResults == {"s1", "s2"}

\* A slot no bridged call uses.
IdleCall == [pc |-> "idle", res |-> None, res_writes |-> 0, f_raised |-> FALSE,
             pipe |-> 0, watch |-> FALSE, cb_count |-> 0, cb_arg |-> None,
             cb_thread |-> None, cb_raised |-> FALSE, released |-> 0]

\* A slot whose call the loop has finished with.
Over(i) == calls[i].pc = "finished" /\ ~calls[i].watch /\ calls[i].pipe = 0

\* run_async on the loop thread (lines 733, 747, 763): the result slot is
\* created holding None, the pipe is watched with done as its handler, and
\* the worker thread is started.
run_async(i) ==
    /\ calls[i].pc = "idle" \/ Over(i)
    /\ calls' = [calls EXCEPT ![i] = [IdleCall EXCEPT !.pc = "started", !.watch = TRUE]]
    /\ UNCHANGED loop_error

\* run_f with the write to the pipe made before f is run and its result
\* stored.
run_f_notify_first(i, out) ==
    \/ /\ calls[i].pc = "started"
       /\ calls' = [calls EXCEPT ![i].pc = "stored", ![i].pipe = calls[i].pipe + 1]
       /\ UNCHANGED loop_error
    \/ /\ calls[i].pc = "stored"
       /\ calls' = [calls EXCEPT
              ![i].pc = "finished",
              ![i].res = IF out = "raise" THEN calls[i].res ELSE out,
              ![i].res_writes = calls[i].res_writes + (IF out = "raise" THEN 0 ELSE 1),
              ![i].f_raised = (out = "raise")]
       /\ UNCHANGED loop_error

\* run_f on the worker thread (lines 749-761), in its two steps: f is run
\* and its result stored, or its exception logged and the slot left as it
\* is; then 'done' is written to the pipe.
run_f(i, out) ==
    \/ /\ calls[i].pc = "started"
       /\ calls' = [calls EXCEPT
              ![i].pc = "stored",
              ![i].res = IF out = "raise" THEN calls[i].res ELSE out,
              ![i].res_writes = calls[i].res_writes + (IF out = "raise" THEN 0 ELSE 1),
              ![i].f_raised = (out = "raise")]
       /\ UNCHANGED loop_error
    \/ /\ calls[i].pc = "stored"
       /\ calls' = [calls EXCEPT ![i].pc = "finished", ![i].pipe = calls[i].pipe + 1]
       /\ UNCHANGED loop_error

\* update_and_redraw(state) as the callback: unpacking None raises (line
\* 566); with a polled state it raises when do_update does, that is when a
\* charm hook raises in process.
update_and_redraw(state, hook_raises) ==
    IF state = None THEN "raised"
    ELSE IF hook_raises THEN "raised" ELSE "returned"

\* done with the release after the callback inside the try instead of in
\* a finally: a raising callback leaves the pipe watched and open.
done_no_finally(i, hook_raises) ==
    /\ calls[i].watch
    /\ calls[i].pipe > 0
    /\ LET outcome == update_and_redraw(calls[i].res, hook_raises)
       IN  /\ calls' = [calls EXCEPT
                  ![i].pipe = 0,
                  ![i].cb_count = calls[i].cb_count + 1,
                  ![i].cb_arg = calls[i].res,
                  ![i].cb_thread = "loop",
                  ![i].cb_raised = (outcome = "raised"),
                  ![i].watch = (outcome = "raised"),
                  ![i].released = calls[i].released
                                    + (IF outcome = "raised" THEN 0 ELSE 1)]
           /\ UNCHANGED loop_error

\* done without its try/except: the callback's exception leaves the handler.
done_uncaught(i, hook_raises) ==
    /\ calls[i].watch
    /\ calls[i].pipe > 0
    /\ LET outcome == update_and_redraw(calls[i].res, hook_raises)
       IN  /\ calls' = [calls EXCEPT
                  ![i].pipe = 0,
                  ![i].cb_count = calls[i].cb_count + 1,
                  ![i].cb_arg = calls[i].res,
                  ![i].cb_thread = "loop",
                  ![i].cb_raised = (outcome = "raised"),
                  ![i].watch = FALSE,
                  ![i].released = calls[i].released + 1]
           /\ loop_error' = (loop_error \/ outcome = "raised")

\* done on the loop thread (lines 738-745), run when the watched pipe has
\* data: the callback gets the result slot, its exception is caught and
\* logged, and the pipe is unwatched and closed in any case.
done_handler(i, hook_raises) ==
    /\ calls[i].watch
    /\ calls[i].pipe > 0
    /\ LET outcome == update_and_redraw(calls[i].res, hook_raises)
       IN  /\ calls' = [calls EXCEPT
                  ![i].pipe = 0,
                  ![i].cb_count = calls[i].cb_count + 1,
                  ![i].cb_arg = calls[i].res,
                  ![i].cb_thread = "loop",
                  ![i].cb_raised = (outcome = "raised"),
                  ![i].watch = FALSE,
                  ![i].released = calls[i].released + 1]
           /\ UNCHANGED loop_error

(* ----------------------- NodeViewMode, PegasusGUI --------------------- *)

\* NodeViewMode.poll_interval: ticks between two polls.
poll_interval == 10

\* Seconds (ticks) without input before the screen locks.
LOCK_TIME == 120

\* The keys told apart: refresh, console toggle, quit, the lock screen's
\* submit, and any other key.
Keys == {"f5", "f8", "q", "enter", "other"}

\* The setter of NodeViewMode.target without the test for the lock screen.
target_setter_unguarded(val) ==
    /\ target' = val
    /\ widget' = IF widget = "console" THEN widget ELSE val

\* The setter of NodeViewMode.target: the view on screen follows the target
\* unless the console or the lock screen is shown.
target_setter(val) ==
    /\ target' = val
    /\ widget' = IF widget \in {"console", "lock"} THEN widget ELSE val

\* What the controller acquisition makes of each snapshot a poll may bring;
\* last_seen keeps what the snapshot offered when the call looks for a
\* machine.
Acquisitions ==
    {[got |-> acquire([allocated |-> a, services |-> {}], ms),
      seen |-> IF done \/ machine # NoMachine THEN Unseen ELSE Seen(a, ms)] :
        a \in AllocatedLists,
        ms \in IF MULTI_SYSTEM THEN MaasStates ELSE {NoMaas}}

\* NodeViewMode.do_update: while the overlay is the target its process is
\* called, and when that returns False the node view becomes the target. An
\* exception of process leaves do_update before the target is touched.
do_update(in, services, raiser) ==
    IF target = "overlay"
    THEN /\ process(in.got, services, raiser)
         /\ last_seen' = in.seen
         /\ IF last_result' = "False"
            THEN target_setter("node_view")
            ELSE UNCHANGED viewVars
         /\ UNCHANGED idle_updates
    ELSE /\ idle_updates' = TRUE
         /\ UNCHANGED <<orchVars, viewVars>>

\* NodeViewMode.tick with the countdown not decremented on the call that
\* polls.
NodeViewMode_tick_no_decrement ==
    /\ IF ticks_left = 0
       THEN /\ \E i \in 1..MaxCalls : run_async(i)
            /\ ticks_left' = poll_interval
       ELSE /\ ticks_left' = ticks_left - 1
            /\ UNCHANGED bridgeVars
    /\ tick_mod' = (tick_mod + 1) % poll_interval
    /\ f5_pending' = FALSE
    /\ UNCHANGED refreshed

\* NodeViewMode.tick: at zero the countdown is set to poll_interval and a
\* poll is started through run_async (in a free slot of the model); the
\* countdown is then decremented in any case.
NodeViewMode_tick ==
    /\ IF ticks_left = 0
       THEN /\ \E i \in 1..MaxCalls : run_async(i)
            /\ ticks_left' = poll_interval - 1
       ELSE /\ ticks_left' = ticks_left - 1
            /\ UNCHANGED bridgeVars
    /\ tick_mod' = (tick_mod + 1) % poll_interval
    /\ f5_pending' = FALSE
    /\ UNCHANGED refreshed

\* NodeViewMode.keypress leaving the countdown alone on F5.
NodeViewMode_keypress_ignored(key) ==
    /\ UNCHANGED ticks_left
    /\ refreshed' = (refreshed \/ key = "f5")
    /\ f5_pending' = (f5_pending \/ key = "f5")
    /\ UNCHANGED tick_mod

\* NodeViewMode.keypress: F5 zeroes the countdown.
NodeViewMode_keypress(key) ==
    /\ ticks_left' = IF key = "f5" THEN 0 ELSE ticks_left
    /\ refreshed' = (refreshed \/ key = "f5")
    /\ f5_pending' = (f5_pending \/ key = "f5")
    /\ UNCHANGED tick_mod

\* The lock part of PegasusGUI.tick (lines 691-713): unlocked and on a tty,
\* the idle counter is decremented, and at zero the view on screen is
\* captured and replaced by the lock screen.
lock_tick ==
    IF ~locked /\ IS_TTY
    THEN IF lock_ticks = 0
         THEN /\ locked' = TRUE
              /\ old' = widget
              /\ widget' = "lock"
              /\ UNCHANGED <<lock_ticks, bypassed>>
         ELSE /\ lock_ticks' = lock_ticks - 1
              /\ UNCHANGED <<locked, old, widget, bypassed>>
    ELSE UNCHANGED <<locked, old, widget, lock_ticks, bypassed>>

\* PegasusGUI.tick: the lock part, then node_view.tick().
PegasusGUI_tick == lock_tick /\ NodeViewMode_tick

\* unlock putting the captured view back whatever the overlay did.
unlock_stale ==
    /\ widget' = old
    /\ bypassed' = FALSE
    /\ old' = None
    /\ lock_ticks' = LOCK_TIME
    /\ locked' = FALSE

\* The closure unlock of PegasusGUI.tick (lines 696-710): the captured view
\* comes back, the node view in its place when it is the overlay and the
\* overlay is done. The closure goes with the lock screen it belonged to.
unlock ==
    /\ widget' = IF old = "overlay" /\ done THEN "node_view" ELSE old
    /\ bypassed' = (old = "overlay" /\ done)
    /\ old' = None
    /\ lock_ticks' = LOCK_TIME
    /\ locked' = FALSE

\* PegasusGUI._key_pressed (lines 667-671), written as the loop's input
\* filter. No code registers it or calls it.
key_pressed == lock_ticks' = LOCK_TIME

\* The input filter of the loop as PegasusGUI.__init__ builds it (lines
\* 652-653): MainLoop.__init__ is given unhandled_input only, so keys pass
\* unfiltered and nothing is done on their way.
input_filter == UNCHANGED lock_ticks

\* _header_hotkeys with F8 leaving the console for the overlay, whatever
\* the node view's target is.
header_hotkeys_stale(key) ==
    IF widget = "lock" THEN UNCHANGED <<widget, exited>>
    ELSE /\ widget' = IF key = "f8"
                      THEN IF widget = "console" THEN "overlay" ELSE "console"
                      ELSE widget
         /\ exited' = (exited \/ key = "q")

\* PegasusGUI._header_hotkeys: nothing while the lock screen is shown;
\* F8 toggles between the console and the node view's target, Q raises
\* ExitMainLoop.
header_hotkeys(key) ==
    IF widget = "lock" THEN UNCHANGED <<widget, exited>>
    ELSE /\ widget' = IF key = "f8"
                      THEN IF widget = "console" THEN target ELSE "console"
                      ELSE widget
         /\ exited' = (exited \/ key = "q")

\* One key delivered to the loop: the input filter, the keypress of the view
\* on screen (LockScreen.keypress, lines 628-638: enter with the right
\* password unlocks; NodeViewMode.keypress), then the unhandled-input hook.
process_input(key, password_ok) ==
    IF widget = "lock" /\ key = "enter"
    THEN IF password_ok
         THEN unlock /\ UNCHANGED <<tickVars, exited>>
         ELSE UNCHANGED <<widget, locked, lock_ticks, old, bypassed, tickVars, exited>>
    ELSE /\ input_filter
         /\ IF widget = "node_view"
            THEN NodeViewMode_keypress(key)
            ELSE UNCHANGED tickVars
         /\ header_hotkeys(key)
         /\ UNCHANGED <<locked, old, bypassed>>

(* ------------------------------ the run ------------------------------- *)

\* The objects as their constructors leave them.
Constructed ==
    /\ registry \in DistinctSeqs(Charms, Cardinality(Charms))
    /\ SINGLE_SYSTEM \in BOOLEAN
    /\ MULTI_SYSTEM = ~SINGLE_SYSTEM
    /\ done = FALSE
    /\ machine = NoMachine
    /\ deployed_charm_classes = <<>>
    /\ finalized_charm_classes = <<>>
    /\ single_net_configured = FALSE
    /\ info_text = IF SINGLE_SYSTEM THEN NODE_WAIT ELSE PXE_BOOT
    /\ last_result = "none"
    /\ call_log = <<>>
    /\ last_services = {}
    /\ ran_process = FALSE
    /\ invoked = {}
    /\ last_seen = Unseen
    /\ calls = [i \in 1..MaxCalls |-> IdleCall]
    /\ loop_error = FALSE
    /\ widget = "overlay"
    /\ target = "overlay"
    /\ locked = FALSE
    /\ lock_ticks = 0
    /\ old = None
    /\ bypassed = FALSE
    /\ ticks_left = 0
    /\ tick_mod = 0
    /\ refreshed = FALSE
    /\ f5_pending = FALSE
    /\ client_on_loop = FALSE
    /\ exited = FALSE
    /\ idle_updates = FALSE

\* The installer started outside a console tty (an xterm, an ssh session):
\* IS_TTY is None.
Init == Constructed /\ IS_TTY = FALSE

\* The installer started on a console tty.
InitTTY == Constructed /\ IS_TTY = TRUE

\* A process call with an arbitrary snapshot (any allocated machines, any
\* maas state, any services) and an arbitrary failing hook. last_seen keeps
\* what the snapshot offered when the call looked for a controller machine.
ProcessCall ==
    \E in \in Acquisitions,
       services \in SUBSET Charms,
       raiser \in Raisers(Range(registry)) :
        /\ process(in.got, services, raiser)
        /\ last_seen' = in.seen
        /\ UNCHANGED <<bridgeVars, guiVars>>

Next == ProcessCall

Spec == Init /\ [][Next]_vars

\* Spec with last_seen also kept in the calls made after the machine is
\* chosen, which do not look at what the snapshot offers: the first started
\* machine of their snapshot is recorded all the same.
ProcessCallSeen ==
    \E in \in {[got |-> acquire([allocated |-> a, services |-> {}], ms),
                 seen |-> IF done THEN Unseen
                          ELSE IF machine # NoMachine
                          THEN [Unseen EXCEPT
                                  !.first_started = Seen(a, ms).first_started]
                          ELSE Seen(a, ms)] :
                  a \in AllocatedLists,
                  ms \in IF MULTI_SYSTEM THEN MaasStates ELSE {NoMaas}},
       services \in SUBSET Charms,
       raiser \in Raisers(Range(registry)) :
        /\ process(in.got, services, raiser)
        /\ last_seen' = in.seen
        /\ UNCHANGED <<bridgeVars, guiVars>>

SpecSeen == Init /\ [][ProcessCallSeen]_vars

\* The bridge alone: the loop starts bridged calls in free slots, the
\* workers and the loop's pipe handler take their steps in any order.
RunAsync == \E i \in 1..MaxCalls : run_async(i) /\ UNCHANGED <<orchVars, guiVars>>

Worker(i) ==
    \E out \in PollResults \cup {"raise"} : run_f(i, out) /\ UNCHANGED <<orchVars, guiVars>>

LoopDone(i) ==
    \E hook_raises \in BOOLEAN : done_handler(i, hook_raises) /\ UNCHANGED <<orchVars, guiVars>>

NextBridge ==
    \/ RunAsync
    \/ \E i \in 1..MaxCalls : Worker(i)
    \/ \E i \in 1..MaxCalls : LoopDone(i)

SpecBridge == Init /\ [][NextBridge]_vars

\* The bridge under the scheduling the code relies on: a started worker
\* thread gets to run (f returns or raises), and the loop's select() serves
\* a watched pipe that has data.
FairSpecBridge ==
    /\ SpecBridge
    /\ \A i \in 1..MaxCalls : WF_vars(Worker(i)) /\ WF_vars(LoopDone(i))

\* The tick scheduler with the bridge, outside a console tty: the timer
\* calls PegasusGUI.tick, F5 reaches NodeViewMode.keypress, the workers and
\* the loop's pipe handler take their steps in any order. A poll takes any
\* number of ticks.
GuiTick ==
    /\ PegasusGUI_tick
    /\ UNCHANGED <<orchVars, target, IS_TTY, client_on_loop, exited, idle_updates>>

RefreshKey ==
    /\ NodeViewMode_keypress("f5")
    /\ UNCHANGED <<orchVars, bridgeVars, viewVars, lockVars, client_on_loop,
                   exited, idle_updates>>

NextTick ==
    \/ GuiTick
    \/ RefreshKey
    \/ \E i \in 1..MaxCalls : Worker(i)
    \/ \E i \in 1..MaxCalls : LoopDone(i)

\* The orchestrator takes no step here and is not read: one registry and one
\* mode stand for all.
InitTick == Init /\ registry = <<"c1", "c2">> /\ MULTI_SYSTEM

SpecTick == InitTick /\ [][NextTick]_vars

\* The polls with their callback in full: the loop's pipe handler runs
\* update_and_redraw, which unpacks the polled state (None when
\* refresh_states raised: the unpacking raises) and calls do_update, all of
\* it on the loop thread; a JujuClient operation that process makes is made
\* there. Polls are started at any time.
LoopUpdate(i) ==
    /\ calls[i].watch
    /\ calls[i].pipe > 0
    /\ IF calls[i].res = None
       THEN done_handler(i, FALSE) /\ UNCHANGED <<orchVars, guiVars>>
       ELSE \E in \in Acquisitions,
               services \in SUBSET Charms,
               raiser \in Raisers(Range(registry)) :
                /\ do_update(in, services, raiser)
                /\ done_handler(i, target = "overlay" /\ last_result' = "raised")
                /\ client_on_loop' =
                       (client_on_loop \/ (/\ calls'[i].cb_thread = "loop"
                                           /\ target = "overlay"
                                           /\ LoggedOp("add_machine")'))
                /\ UNCHANGED <<lockVars, tickVars, exited>>

NextLoop ==
    \/ RunAsync
    \/ \E i \in 1..MaxCalls : Worker(i)
    \/ \E i \in 1..MaxCalls : LoopUpdate(i)

\* Multi-system installs with registries of at most one charm class.
InitLoop == Init /\ Len(registry) <= 1 /\ MULTI_SYSTEM

SpecLoop == InitLoop /\ [][NextLoop]_vars

\* The idle lock on a console tty, with the views and the orchestrator: the
\* timer runs the lock part of PegasusGUI.tick, a key is delivered, or the
\* callback of a poll runs do_update. What node_view.tick() (line 715) does,
\* the countdown and the start of polls, is the subject of SpecTick; here a
\* poll's callback may come at any time, with any snapshot (of the services
\* only those of registered charms, the only ones read). Q ends the loop.
LockTick ==
    /\ ~exited
    /\ lock_tick
    /\ UNCHANGED <<orchVars, bridgeVars, target, IS_TTY, tickVars, client_on_loop,
                   exited, idle_updates>>

KeyInput ==
    \E key \in Keys, password_ok \in BOOLEAN :
        /\ ~exited
        /\ process_input(key, password_ok)
        /\ UNCHANGED <<orchVars, bridgeVars, target, IS_TTY, client_on_loop,
                       idle_updates>>

Update ==
    \E in \in Acquisitions,
       services \in SUBSET Range(registry),
       raiser \in Raisers(Range(registry)) :
        /\ ~exited
        /\ do_update(in, services, raiser)
        /\ client_on_loop' =
               (client_on_loop \/ (target = "overlay" /\ LoggedOp("add_machine")'))
        /\ UNCHANGED <<bridgeVars, lockVars, tickVars, exited>>

NextLock == LockTick \/ KeyInput \/ Update

\* Single-system installs with registries of at most one charm class, on a
\* console tty or off it.
InitLock == (Init \/ InitTTY) /\ Len(registry) <= 1 /\ SINGLE_SYSTEM

SpecLock == InitLock /\ [][NextLock]_vars

(* ---------------------- properties of the orchestrator ---------------- *)

NoDuplicates(s) == \A i, j \in DOMAIN s : s[i] = s[j] => i = j

Deployed == Range(deployed_charm_classes)

Finalized == Range(finalized_charm_classes)

Registered == Range(charm_classes)

ControllerChosen == machine # NoMachine

\* The entries of the last call's log for one hook of one charm.
Logged(h, c) == {i \in DOMAIN call_log : call_log[i].hook = h /\ call_log[i].charm = c}

LoggedRaise(h, c) == \E i \in Logged(h, c) : call_log[i].raised

\* C1: finalizedCharms is a subset of deployedCharms, deployedCharms a subset
\* of the registered charms, neither holds a charm twice, and no process call
\* removes a charm from either.
C1_ProgressSetsNestedAndGrowOnly ==
    /\ [](/\ Finalized \subseteq Deployed
          /\ Deployed \subseteq Registered
          /\ NoDuplicates(deployed_charm_classes)
          /\ NoDuplicates(finalized_charm_classes))
    /\ [][/\ Deployed \subseteq Range(deployed_charm_classes')
          /\ Finalized \subseteq Range(finalized_charm_classes')]_vars

\* C1 witness: after some calls one charm is finalized and another one is
\* deployed but not finalized.
C1_Witness ==
    /\ Len(finalized_charm_classes) = 1
    /\ Len(deployed_charm_classes) = 2
    /\ last_result = "True"

\* C2 as stated: a call that returns returns false exactly when
\* finalizedCharms covers every registered charm at the end of the call.
C2_ReturnsFalseIffAllFinalized ==
    last_result \in {"True", "False"} =>
        (last_result = "False" <=> Registered \subseteq Finalized)

\* C2 amended: a call returns false exactly when, at the end of the call, a
\* controller machine is chosen and finalizedCharms covers every registered
\* charm; a call that returns without that returns true.
C2_ReturnsFalseIffChosenAndAllFinalized ==
    last_result # "none" =>
        /\ last_result = "False" <=> (ControllerChosen /\ Registered \subseteq Finalized)
        /\ (last_result = "False") = done

\* C2 witness: a call has returned false with both charms registered.
C2_Witness ==
    /\ last_result = "False"
    /\ ran_process
    /\ Len(charm_classes) = 2
    /\ Registered \subseteq Finalized

\* C3: once a call has returned false, every later call returns false at
\* once: _process is not entered, no hook and no add_machine is invoked, and
\* machine, deployed, finalized and the network latch keep their values.
C3_DoneIsLatched ==
    [][done =>
        /\ last_result' = "False"
        /\ ~ran_process'
        /\ call_log' = <<>>
        /\ invoked' = invoked
        /\ UNCHANGED <<done, machine, deployed_charm_classes,
                       finalized_charm_classes, single_net_configured>>]_vars

\* C3 witness: a call was made after the one that returned false.
C3_Witness == done /\ last_result = "False" /\ ~ran_process /\ Len(charm_classes) = 2

\* C4: a charm whose setup raised is in deployedCharms afterwards, and its
\* setup is not invoked again in a later call.
C4_FailedSetupStillDeployed ==
    /\ [](\A c \in Charms : LoggedRaise("setup", c) => c \in Deployed)
    /\ [][\A c \in Charms : LoggedRaise("setup", c) =>
            ~\E i \in DOMAIN call_log' :
                call_log'[i].hook = "setup" /\ call_log'[i].charm = c]_vars

\* C5: no process call raises to its caller.
C5_ProcessNeverRaises == last_result # "raised"

\* C6: a set_relations or post_proc that raises counts as done (the charm is
\* finalized in that call), and neither hook is invoked twice for a charm.
C6_FailedFinalizationCounts ==
    /\ [](\A c \in Charms :
            LoggedRaise("set_relations", c) \/ LoggedRaise("post_proc", c)
                => c \in Finalized)
    /\ [][\A c \in Charms, h \in {"set_relations", "post_proc"} :
            <<h, c>> \in invoked =>
                ~\E i \in DOMAIN call_log' :
                    call_log'[i].hook = h /\ call_log'[i].charm = c]_vars

\* C7: with a controller chosen, a charm not yet deployed whose service is in
\* the call's snapshot is added to deployedCharms by that call without setup;
\* setup is invoked only in a call whose snapshot has no such service.
C7_LiveServiceDeployedWithoutSetup ==
    /\ [][(ran_process' /\ machine' # NoMachine) =>
            \A c \in Registered :
                (c \notin Deployed /\ c \in last_services') =>
                    /\ c \in Range(deployed_charm_classes')
                    /\ ~\E i \in DOMAIN call_log' :
                          call_log'[i].hook = "setup" /\ call_log'[i].charm = c]_vars
    /\ [](\A c \in Charms : Logged("setup", c) # {} => c \notin last_services)

\* C8: set_relations and post_proc are invoked for a charm, and the charm is
\* finalized, only when it is deployed and the call's snapshot has its
\* service; a deployed charm without a service stays unfinalized.
C8_FinalizedOnlyWhenDeployedAndLive ==
    /\ [](\A c \in Charms :
            Logged("set_relations", c) \cup Logged("post_proc", c) # {}
                => c \in Deployed /\ c \in last_services)
    /\ [][\A c \in Range(finalized_charm_classes') \ Finalized :
            /\ c \in Range(deployed_charm_classes')
            /\ c \in last_services'
            /\ Logged("set_relations", c)' # {}
            /\ Logged("post_proc", c)' # {}]_vars
    /\ [][\A c \in Range(deployed_charm_classes') \ Finalized :
            c \notin last_services' => c \notin Range(finalized_charm_classes')]_vars

\* C8 witness: in one call a charm was finalized while another deployed charm,
\* whose service the snapshot lacks, was skipped.
C8_Witness ==
    \E c, d \in Deployed :
        /\ Logged("post_proc", c) # {}
        /\ c \in Finalized
        /\ d \notin last_services
        /\ d \notin Finalized

\* The status texts of a call that found no controller machine.
WaitingTexts ==
    {"No machines allocated to juju. Please pxe boot a machine.",
     "Adding maas machine to juju",
     "Waiting for a machine to become ready."}

\* C13: a process call made with no controller machine chosen, on a snapshot
\* with no allocated machine whose agent is started, returns True, sets one
\* of the waiting texts, invokes no charm hook and no
\* configure_lxc_network, and leaves machine, deployed_charm_classes and
\* finalized_charm_classes as they were; when maas has no machine either it
\* issues no add_machine.
C13_NoSelectableMachineOnlyWaits ==
    [][(machine = NoMachine /\ last_seen' # Unseen
            /\ last_seen'.first_started = None)
        => /\ last_result' = "True"
           /\ info_text' \in WaitingTexts
           /\ InvokedIn(call_log') = {}
           /\ ~LoggedOp("configure_lxc_network")'
           /\ machine' = NoMachine
           /\ deployed_charm_classes' = deployed_charm_classes
           /\ finalized_charm_classes' = finalized_charm_classes
           /\ single_net_configured' = single_net_configured
           /\ (last_seen'.maas = 0 => ~LoggedOp("add_machine")')]_vars

\* A call that found machines allocated, none of them started.
C13_Witness ==
    /\ ran_process
    /\ last_seen # Unseen
    /\ last_seen.allocated > 0
    /\ last_seen.first_started = None
    /\ machine = NoMachine
    /\ last_result = "True"

\* The charms whose setup the last call invoked, in the order of invocation.
SetupOrder ==
    LET setups == SelectSeq(call_log, LAMBDA e : e.hook = "setup")
    IN  [i \in DOMAIN setups |-> setups[i].charm]

\* C14: setup follows ascending deploy_priority within a call and across
\* calls (no charm gets its first setup after a charm of higher priority
\* value got one), and the call that chooses a started machine on a snapshot
\* holding no service of a registered charm invokes setup for every
\* registered charm, in the order of charm_classes, and returns True.
C14_SetupInPriorityOrder ==
    /\ [][\A i, j \in DOMAIN SetupOrder' :
            i < j => deploy_priority(SetupOrder'[i]) < deploy_priority(SetupOrder'[j])]_vars
    /\ [][\A a, b \in Registered :
            (deploy_priority(a) < deploy_priority(b)
                /\ <<"setup", b>> \in invoked /\ <<"setup", a>> \notin invoked)
            => Logged("setup", a)' = {}]_vars
    /\ [][(machine = NoMachine /\ last_seen' # Unseen
              /\ last_seen'.first_started # None
              /\ Registered # {}
              /\ last_services' \cap Registered = {})
          => /\ SetupOrder' = charm_classes
             /\ last_result' = "True"]_vars

\* C15: a process call that has a controller machine (chosen before, or
\* started in the call's snapshot) and finds the service of every registered
\* charm in the snapshot finalizes every charm and returns False in that
\* same call, also when a charm hook fails; this is the step by which a run
\* whose snapshots come to hold a started machine and all services ends.
C15_AllLiveCallFinishes ==
    [][(/\ ~done
        /\ \/ machine # NoMachine
           \/ last_seen' # Unseen /\ last_seen'.first_started # None
        /\ Registered \subseteq last_services')
       => /\ Range(finalized_charm_classes') = Registered
          /\ last_result' = "False"
          /\ done']_vars

\* Where configure_lxc_network and the first setup stand in the last call's
\* log (0 when absent).
FirstLogged(op) ==
    IF LoggedOp(op)
    THEN CHOOSE i \in DOMAIN call_log :
            /\ call_log[i].hook = op
            /\ \A j \in DOMAIN call_log : call_log[j].hook = op => i <= j
    ELSE 0

\* C16: configure_lxc_network runs in exactly the calls of a single-system
\* install that choose the controller machine, once in such a call and
\* before any setup of that call; the machine once chosen stays, so it runs
\* at most once in a run, and in a multi-system install never.
C16_NetworkConfiguredOnceOnSelection ==
    /\ [][LoggedOp("configure_lxc_network")'
            <=> (SINGLE_SYSTEM /\ machine = NoMachine /\ machine' # NoMachine)]_vars
    /\ [][machine # NoMachine => machine' = machine]_vars
    /\ [](Cardinality({i \in DOMAIN call_log :
                         call_log[i].hook = "configure_lxc_network"}) <= 1)
    /\ []((LoggedOp("configure_lxc_network") /\ LoggedOp("setup"))
            => FirstLogged("configure_lxc_network") < FirstLogged("setup"))
    /\ [](single_net_configured => SINGLE_SYSTEM /\ machine # NoMachine)

\* The call that chose the machine in a single-system install configured the
\* network and then set a charm up.
C16_Witness ==
    /\ SINGLE_SYSTEM
    /\ LoggedOp("configure_lxc_network")
    /\ LoggedOp("setup")
    /\ single_net_configured

(* ------------------- properties of the tick scheduler ----------------- *)

\* A bridged poll whose worker has not finished or whose callback has not
\* been delivered.
Outstanding(i) == calls[i].pc # "idle" /\ ~Over(i)

\* C11: no poll is started while an earlier one is outstanding, so at most
\* one poll is outstanding at any time.
C11_NoOverlappingPolls ==
    Cardinality({i \in 1..MaxCalls : Outstanding(i)}) <= 1

\* A step that is a call of tick(), and a step that starts a poll.
TickStep == tick_mod' # tick_mod

Polled == \E i \in 1..MaxCalls : calls[i].pc # "started" /\ calls'[i].pc = "started"

\* C17: tick() starts a poll exactly when the countdown is zero, leaves the
\* countdown at poll_interval - 1 on such a call and one lower on any other,
\* never negative; with no F5 so far the countdown is zero exactly before
\* the ticks numbered 1, 1 + poll_interval, 1 + 2 * poll_interval, ...
C17_PollExactlyAtZeroCountdown ==
    /\ [][TickStep =>
            /\ Polled <=> ticks_left = 0
            /\ ticks_left' = (IF ticks_left = 0 THEN poll_interval ELSE ticks_left) - 1]_vars
    /\ [](ticks_left \in 0..(poll_interval - 1))
    /\ [](~refreshed => ticks_left = (poll_interval - tick_mod) % poll_interval)

\* A second poll was started by the countdown alone.
C17_Witness ==
    /\ ~refreshed
    /\ Cardinality({i \in 1..MaxCalls : calls[i].pc # "idle"}) >= 2
    /\ tick_mod = 1
    /\ ticks_left = poll_interval - 1

\* C18: the tick() that follows an F5 starts a poll and leaves the countdown
\* at poll_interval - 1, whatever the countdown was; the F5 itself zeroes
\* the countdown and starts no poll.
C18_RefreshPollsOnNextTick ==
    /\ [][(f5_pending /\ TickStep) => (Polled /\ ticks_left' = poll_interval - 1)]_vars
    /\ [][(~f5_pending /\ f5_pending') => (calls' = calls /\ ticks_left' = 0)]_vars
    /\ [](f5_pending => ticks_left = 0)

\* F5 at a countdown that was not zero, then the tick that polled.
C18_Witness ==
    /\ refreshed
    /\ ~f5_pending
    /\ ticks_left = poll_interval - 1
    /\ tick_mod \notin {0, 1}
    /\ \E i \in 1..MaxCalls : calls[i].pc = "started"

(* ---------------- properties of the loop thread and the lock ---------- *)

\* C12: no JujuClient operation runs on the loop thread: the add_machine
\* that process issues in a multi-system install is handed to a worker.
C12_NoClientCallOnLoopThread == ~client_on_loop

\* C19: the lock captures the view on screen when it engages and keeps it
\* while locked; the unlock puts that view back, the node view in its place
\* when it is the overlay and the overlay is done, and leaves the idle
\* counter at LOCK_TIME and the gate unlocked.
C19_UnlockRestoresCapturedView ==
    /\ [][(~locked /\ locked') => (old' = widget /\ widget' = "lock")]_vars
    /\ [][(locked /\ locked') => (old' = old /\ widget' = "lock")]_vars
    /\ [][(locked /\ ~locked') =>
            /\ widget' = IF old = "overlay" /\ done THEN "node_view" ELSE old
            /\ lock_ticks' = LOCK_TIME]_vars
    /\ [](~locked => widget # "lock")

\* An unlock that found the captured overlay done and put the node view in
\* its place.
C19_Witness ==
    /\ bypassed
    /\ ~locked
    /\ widget = "node_view"
    /\ lock_ticks = LOCK_TIME
    /\ done

\* C20: a key delivered to the loop leaves the idle counter at LOCK_TIME;
\* here for F8, the key whose step shows in the views (the console comes or
\* goes while no lock screen is shown).
C20_InputResetsIdleCounter ==
    [][(/\ widget # "lock"
        /\ widget' # "lock"
        /\ widget' # widget
        /\ widget = "console" \/ widget' = "console")
       => lock_ticks' = LOCK_TIME]_vars

(* --------------- properties of the controller acquisition ------------- *)

\* How many times the last call made the side effect op.
TimesLogged(op) == Cardinality({i \in DOMAIN call_log : call_log[i].hook = op})

\* C23: a call makes one add_machine when the install is multi-system, no
\* controller machine is chosen and the snapshot has no machine allocated
\* in juju and at least one in maas, and none in any other call (none in a
\* single-system install, none once a machine is chosen); a call that looks
\* for a machine ends with the first started machine of the snapshot, in
\* juju's order, as the controller machine, or with none if there is none.
C23_AddMachineExactlyWhenNoneAllocated ==
    /\ [][TimesLogged("add_machine")' =
            (IF /\ MULTI_SYSTEM
                /\ machine = NoMachine
                /\ last_seen' # Unseen
                /\ last_seen'.allocated = 0
                /\ last_seen'.maas > 0
             THEN 1 ELSE 0)]_vars
    /\ [][(machine = NoMachine /\ last_seen' # Unseen) =>
            /\ machine'.machine_id = last_seen'.first_started
            /\ machine' # NoMachine => machine'.agent_state = "started"]_vars

\* C23 witness: a multi-system call found juju empty and a machine in maas,
\* and made the add_machine.
C23_Witness ==
    /\ MULTI_SYSTEM
    /\ machine = NoMachine
    /\ last_seen # Unseen
    /\ last_seen.allocated = 0
    /\ last_seen.maas > 0
    /\ TimesLogged("add_machine") = 1
    /\ last_result = "True"

\* C24: a chosen controller machine is never changed or cleared by a later
\* call, whatever its snapshot offers, and every setup is invoked with the
\* id of the chosen machine.
C24_ControllerMachineLatched ==
    /\ [][machine # NoMachine => machine' = machine]_vars
    /\ [](\A i \in DOMAIN call_log :
            call_log[i].hook = "setup"
                => (machine # NoMachine /\ call_log[i].mid = machine.machine_id))

\* C24 witness: a call made with the machine chosen, on a snapshot whose
\* first started machine is another one or none, set a charm up on the
\* chosen machine.
C24_Witness ==
    /\ machine # NoMachine
    /\ ran_process
    /\ last_seen.allocated = -1
    /\ last_seen.first_started # machine.machine_id
    /\ \E i \in DOMAIN call_log :
          call_log[i].hook = "setup" /\ call_log[i].mid = machine.machine_id

\* C22: while locked the view on screen is the lock screen; a step that
\* leaves the screen locked leaves the idle counter alone and does not end
\* the loop (F8 and Q do nothing), and when the overlay finishes in such a
\* step the node view becomes the target while the lock screen stays.
C22_LockScreenStaysWhileLocked ==
    /\ [](locked => widget = "lock")
    /\ [][(locked /\ locked') =>
            /\ widget' = "lock"
            /\ lock_ticks' = lock_ticks
            /\ exited' = exited
            /\ (~done /\ done') => target' = "node_view"]_vars

\* C22 witness: the overlay finished while the screen was locked.
C22_Witness ==
    /\ locked
    /\ widget = "lock"
    /\ old = "overlay"
    /\ done
    /\ target = "node_view"
    /\ ~exited

\* C25: with the overlay done and the screen not locked, the view on
\* screen is not the overlay; once process has returned False the node view
\* stays the target and do_update never calls process again (the
\* orchestrator and its call records stay as they are) while callbacks of
\* polls keep coming.
C25_DoneOverlayNeverShown ==
    /\ []((done /\ ~locked) => widget # "overlay")
    /\ [](last_result = "False" => (done /\ target = "node_view"))
    /\ [](idle_updates => last_result = "False")
    /\ [][last_result = "False" => UNCHANGED orchVars]_vars

\* C25 witness: after the overlay finished behind the console, a poll's
\* callback came and F8 brought the node view up.
C25_Witness ==
    /\ done
    /\ idle_updates
    /\ ~locked
    /\ ~bypassed
    /\ widget = "node_view"
    /\ lock_ticks < LOCK_TIME

(* -------------------------- properties of the bridge ------------------ *)

\* The callback of call i has run once, on the loop thread, after the worker
\* finished, with what the result slot holds.
Delivered(i) ==
    /\ calls[i].cb_count = 1
    /\ calls[i].cb_thread = "loop"
    /\ calls[i].pc = "finished"
    /\ calls[i].cb_arg = calls[i].res

\* C9: the callback of every bridged call is invoked exactly once, on the
\* loop thread, and only after the worker has run f and stored its result;
\* the slot is written at most once, and never after the loop has read it.
C9_CallbackOnceAfterWorker ==
    /\ [](\A i \in 1..MaxCalls :
            /\ calls[i].cb_count <= 1
            /\ calls[i].res_writes <= 1
            /\ calls[i].cb_count = 1 => Delivered(i)
            /\ Over(i) => Delivered(i))
    /\ [][\A i \in 1..MaxCalls :
            calls[i].cb_count = 1 /\ calls'[i].cb_count = 1
                => calls'[i].res = calls[i].res]_vars
    /\ \A i \in 1..MaxCalls : (calls[i].pc = "started") ~> Delivered(i)

\* C9 witness: one call has delivered a polled result while another call's
\* worker has stored its result and not yet written to the pipe.
C9_Witness ==
    \E i, j \in 1..MaxCalls :
        /\ i # j
        /\ Delivered(i)
        /\ calls[i].cb_arg \in PollResults
        /\ calls[j].pc = "stored"

\* C10: when f raises, the callback is still invoked exactly once, with the
\* empty result, and neither f's exception nor the callback's reaches the
\* loop.
C10_RaisingCallStillDelivered ==
    /\ [](/\ ~loop_error
          /\ \A i \in 1..MaxCalls :
                calls[i].f_raised =>
                    /\ calls[i].res = None
                    /\ calls[i].cb_count <= 1
                    /\ calls[i].cb_count = 1 => calls[i].cb_arg = None
                    /\ Over(i) => calls[i].cb_count = 1)
    /\ \A i \in 1..MaxCalls :
          (calls[i].f_raised /\ calls[i].pc = "stored")
              ~> (calls[i].f_raised /\ Delivered(i) /\ calls[i].cb_arg = None)

\* C10 witness: f raised, the callback got None and raised in turn, and the
\* loop goes on.
C10_Witness ==
    \E i \in 1..MaxCalls :
        /\ calls[i].f_raised
        /\ Delivered(i)
        /\ calls[i].cb_arg = None
        /\ calls[i].cb_raised
        /\ Over(i)

\* C21: the watched pipe of a bridged call is released (unwatched and
\* closed) at most once, is released exactly when the callback has run and
\* stays watched until then, also when the callback raised; and the pipe of
\* a call whose worker finished gets released.
C21_PipeReleasedOnceAfterCallback ==
    /\ [](\A i \in 1..MaxCalls :
            /\ calls[i].released <= 1
            /\ calls[i].released = calls[i].cb_count
            /\ calls[i].released = 1 => ~calls[i].watch
            /\ (calls[i].pc # "idle" /\ calls[i].cb_count = 0) => calls[i].watch
            /\ calls[i].cb_raised => (calls[i].released = 1 /\ ~calls[i].watch))
    /\ \A i \in 1..MaxCalls :
          (calls[i].pc = "finished") ~> (calls[i].released = 1 /\ ~calls[i].watch)

\* C21 witness: the callback got a polled state and raised, and the pipe is
\* released.
C21_Witness ==
    \E i \in 1..MaxCalls :
        /\ calls[i].cb_raised
        /\ calls[i].cb_arg \in PollResults
        /\ calls[i].released = 1
        /\ ~calls[i].watch
        /\ calls[i].pipe = 0

====
